---------------------------- MODULE Spec2Model ----------------------------
(***************************************************************************)
(* bevy_contrib_schedules: schedule_runner_system and PackedSchedule.     *)
(*                                                                         *)
(* Seconds (f64 in the source) are counted in whole multiples of one      *)
(* dyadic quantum (for instance 0.5 s): on such values, within the bounds *)
(* below, f64 addition, subtraction and comparison are exact, so they are  *)
(* integer arithmetic here.  Rounding of other f64 values is outside this *)
(* model.  Division (frame_percent) yields a fraction <<num, den>>.        *)
(***************************************************************************)
EXTENDS Integers, FiniteSets, Sequences, TLC

\* ---------------------------------------------------------------- bounds
MaxElapsed == 7    \* largest clock reading delivered by the driver
MinElapsedAbs == 1 \* clock readings go down to -MinElapsedAbs
MaxRate == 4       \* largest rate given to from_rate
MaxTicks == 4      \* driver ticks per behaviour
MaxStepOps == 1    \* operations on the owner slots that systems perform per behaviour

Global == "global"
Entities == {"e1", "e2"}
Owners == {Global} \cup Entities
NoOwner == "none"

Elapsed == (0 - MinElapsedAbs)..MaxElapsed
Rates == 0..MaxRate
\* no legitimate run (rate >= 1, accumulator < rate) needs more passes than this
PassCap == MaxElapsed + 1
\* driver ticks per behaviour of the application with several owners
ProtocolTicks == MaxTicks - 2

\* ------------------------------------------------- ScheduleType, PackedSchedule
\* A slot or local that holds no PackedSchedule
Absent == [ty |-> "Absent", rate |-> 0, acc |-> 0, stages |-> 0, systems |-> 0]

\* PackedSchedule::default(): ScheduleType::Always, an empty Schedule
PackedScheduleDefault ==
    [ty |-> "Always", rate |-> 0, acc |-> 0, stages |-> 0, systems |-> 0]

\* (mutant) the dummy is the default PackedSchedule: policy and rate are lost
get_dummy_Default(s) == PackedScheduleDefault

\* (mutant) the dummy keeps variant and rate and starts from a zero accumulator
get_dummy_ZeroAccumulator(s) ==
    [PackedScheduleDefault EXCEPT !.ty = s.ty, !.rate = s.rate]

\* PackedSchedule { 0: self.0, ..Default::default() }: self.0 is the Copy enum,
\* so Fixed(rate, accumulator) is copied whole
get_dummy(s) ==
    [PackedScheduleDefault EXCEPT !.ty = s.ty, !.rate = s.rate, !.acc = s.acc]

add_stage(s) == [s EXCEPT !.stages = @ + 1]

add_default_stages(s) ==
    add_stage(add_stage(add_stage(add_stage(add_stage(add_stage(add_stage(s)))))))

add_system(s) == [s EXCEPT !.systems = @ + 1]

ScheduleRunnerDefault == add_default_stages(PackedScheduleDefault)

from_rate(rate) ==
    add_default_stages([PackedScheduleDefault EXCEPT
                            !.ty = "Fixed", !.rate = rate, !.acc = 0])

\* What the applications build: a runner with one system added (examples)
Constructed ==
    {add_system(ScheduleRunnerDefault)} \cup {add_system(from_rate(r)) : r \in Rates}

\* The runners of an application with several owners (examples/multiple.rs)
ProtocolRates == {1, 2}
ProtocolConstructed ==
    {add_system(ScheduleRunnerDefault)}
        \cup {add_system(from_rate(r)) : r \in ProtocolRates}

\* The Time resource
NoTime == [present |-> FALSE, delta_seconds_f64 |-> 0]
TimeOf(t) == [present |-> TRUE, delta_seconds_f64 |-> t]
TimeReadings == {NoTime} \cup {TimeOf(t) : t \in Elapsed}
ProtocolReadings == {NoTime, TimeOf(0 - 1), TimeOf(1), TimeOf(3)}

\* f64::min(1.0, f64::max(0.0, accumulator / rate)) as a fraction <<num, den>>.
\* x / 0.0 is +inf, -inf or NaN (0.0 / 0.0); f64::max(0.0, NaN) is 0.0.
Fraction(n, d) == IF d < 0 THEN <<0 - n, 0 - d>> ELSE <<n, d>>
Quotient(accumulator, rate) ==
    IF rate # 0 THEN [kind |-> "finite", val |-> Fraction(accumulator, rate)]
    ELSE IF accumulator > 0 THEN [kind |-> "+inf", val |-> <<1, 1>>]
    ELSE IF accumulator < 0 THEN [kind |-> "-inf", val |-> <<0, 1>>]
    ELSE [kind |-> "NaN", val |-> <<0, 1>>]
f64_max0(q) ==
    IF q.kind = "NaN" THEN [kind |-> "finite", val |-> <<0, 1>>]
    ELSE IF q.kind = "-inf" THEN [kind |-> "finite", val |-> <<0, 1>>]
    ELSE IF q.kind = "finite" /\ q.val[1] < 0 THEN [kind |-> "finite", val |-> <<0, 1>>]
    ELSE q
f64_min1(q) ==
    IF q.kind = "+inf" THEN <<1, 1>>
    ELSE IF q.val[1] > q.val[2] THEN <<1, 1>>
    ELSE q.val
\* (mutant) f64::min(1.0, accumulator / rate): the lower clamp is missing
frame_percent_NoLowerClamp(s) ==
    IF s.ty = "Always" THEN <<1, 1>>
    ELSE f64_min1(Quotient(s.acc, s.rate))

frame_percent(s) ==
    IF s.ty = "Always" THEN <<1, 1>>
    ELSE f64_min1(f64_max0(Quotient(s.acc, s.rate)))


\* ------------------------------------------------------------------ state
VARIABLES
    resources,   \* Resources: [runner: the ScheduleRunner resource, time: the Time resource]
    world,       \* World: entity -> its ScheduleRunner component (Absent if none)
    pc,          \* position of schedule_runner_system
    rpc,         \* position of PackedSchedule::run
    schedule,    \* local `schedule` of schedule_runner_system (the detached global)
    entity_map,  \* local `entity_map` (Absent: no such key)
    running,     \* owner whose detached PackedSchedule is being run
    ran,         \* keys of entity_map already passed by the run loop
    visited,     \* entities already passed by the reattach loop
    panic,       \* "none", or the panic that ended the process
    percent,     \* value a running system last got from frame_percent()
    ticks,       \* history: driver ticks started
    stepOps,     \* history: structural operations performed by systems
    acc0,        \* history: accumulator when the current run started
    passes,      \* history: executor passes of the current run
    inits,       \* history: Schedule::initialize calls of the current run
    pre,         \* history: owner -> PackedSchedule taken out at detach (this tick)
    trace,       \* history: owner -> detach / run / reattach counts (this tick)
    dropped,     \* history: owners whose PackedSchedule was dropped with entity_map
    hist,        \* history: owner -> clock total, pass total, sign class of readings
    written      \* history: owners whose slot a system wrote or removed (this tick)

vars == <<resources, world, pc, rpc, schedule, entity_map, running, ran, visited,
          panic, percent, ticks, stepOps, acc0, passes, inits, pre, trace, dropped,
          hist, written>>

NoPercent == <<0, 0>>
NoTrace == [detached |-> 0, run |-> 0, reattached |-> 0]
NewHist == [sumE |-> 0, passes |-> 0, sign |-> "pos", runs |-> 0]

Slot(o) == IF o = Global THEN resources.runner ELSE world[o]

\* the PackedSchedule `self` of the run in progress
Cur == IF running = Global THEN schedule
       ELSE IF running \in Entities THEN entity_map[running]
       ELSE Absent

\* o's PackedSchedule is held by schedule_runner_system, not by its slot
Detached(o) ==
    IF o = Global THEN schedule # Absent ELSE entity_map[o] # Absent

\* ------------------------------------------------------------------- Init
\* App::build(): an optional ScheduleRunner resource, entities spawned with or
\* without a ScheduleRunner, Time not yet read
InitLocals ==
    /\ pc = "idle"
    /\ rpc = "none"
    /\ schedule = Absent
    /\ entity_map = [e \in Entities |-> Absent]
    /\ running = NoOwner
    /\ ran = {}
    /\ visited = {}
    /\ panic = "none"
    /\ percent = NoPercent
    /\ ticks = 0
    /\ stepOps = 0
    /\ acc0 = 0
    /\ passes = 0
    /\ inits = 0
    /\ pre = [o \in Owners |-> Absent]
    /\ trace = [o \in Owners |-> NoTrace]
    /\ dropped = {}
    /\ hist = [o \in Owners |-> NewHist]
    /\ written = {}

\* examples/multiple.rs: runners as a resource and on entities
Init ==
    /\ \E r \in ProtocolConstructed \cup {Absent} :
           resources = [runner |-> r, time |-> NoTime]
    /\ world \in [Entities -> ProtocolConstructed \cup {Absent}]
    /\ InitLocals

\* examples/fixed_tick.rs: one runner, added as a resource
InitTiming ==
    /\ \E r \in Constructed : resources = [runner |-> r, time |-> NoTime]
    /\ world = [e \in Entities |-> Absent]
    /\ InitLocals

\* --------------------------------------------------- schedule_runner_system
\* The driver delivers a clock reading and calls the system: lines 164-171
Tick(t) ==
    /\ pc = "idle"
    /\ ticks' = ticks + 1
    /\ trace' = [o \in Owners |->
                    IF o = Global /\ resources.runner # Absent
                    THEN [NoTrace EXCEPT !.detached = 1] ELSE NoTrace]
    /\ pre' = [o \in Owners |-> IF o = Global THEN resources.runner ELSE Absent]
    /\ dropped' = {}
    /\ IF resources.runner # Absent
       THEN /\ schedule' = resources.runner
            /\ resources' = [runner |-> get_dummy(resources.runner), time |-> t]
            /\ pc' = "global_run"
            /\ rpc' = "initialize"
            /\ running' = Global
            /\ acc0' = resources.runner.acc
       ELSE /\ resources' = [resources EXCEPT !.time = t]
            /\ pc' = "entity_detach"
            /\ UNCHANGED <<schedule, rpc, running, acc0>>
    /\ passes' = 0
    /\ inits' = 0
    /\ UNCHANGED <<world, entity_map, ran, visited, panic, percent, stepOps, hist>>
    /\ written' = {}

\* (mutant) the run schedule is not written back: the slot keeps its dummy
ReattachGlobal_LeaveDummy ==
    /\ pc = "global_run"
    /\ rpc = "return"
    /\ IF resources.runner = Absent
       THEN /\ panic' = "unwrap_resource"
            /\ pc' = "aborted"
            /\ UNCHANGED <<schedule, running, rpc, trace>>
       ELSE /\ schedule' = Absent
            /\ running' = NoOwner
            /\ rpc' = "none"
            /\ pc' = "entity_detach"
            /\ trace' = [trace EXCEPT ![Global].reattached = @ + 1]
            /\ UNCHANGED panic
    /\ UNCHANGED <<resources, world, entity_map, ran, visited, percent, ticks,
                   stepOps, acc0, passes, inits, pre, dropped, hist>>
    /\ UNCHANGED written

\* (mutant) a slot that a system wrote during the run keeps what was written
ReattachGlobal_KeepWritten ==
    /\ pc = "global_run"
    /\ rpc = "return"
    /\ IF resources.runner = Absent
       THEN /\ panic' = "unwrap_resource"
            /\ pc' = "aborted"
            /\ UNCHANGED <<resources, schedule, running, rpc, trace>>
       ELSE /\ resources' = IF Global \in written THEN resources
                            ELSE [resources EXCEPT !.runner = schedule]
            /\ schedule' = Absent
            /\ running' = NoOwner
            /\ rpc' = "none"
            /\ pc' = "entity_detach"
            /\ trace' = [trace EXCEPT ![Global].reattached = @ + 1]
            /\ UNCHANGED panic
    /\ UNCHANGED <<world, entity_map, ran, visited, percent, ticks, stepOps, acc0,
                   passes, inits, pre, dropped, hist>>
    /\ UNCHANGED written

\* line 173: resources.get_mut::<ScheduleRunner>().unwrap().0 = schedule
ReattachGlobal ==
    /\ pc = "global_run"
    /\ rpc = "return"
    /\ IF resources.runner = Absent
       THEN /\ panic' = "unwrap_resource"
            /\ pc' = "aborted"
            /\ UNCHANGED <<resources, schedule, running, rpc, trace>>
       ELSE /\ resources' = [resources EXCEPT !.runner = schedule]
            /\ schedule' = Absent
            /\ running' = NoOwner
            /\ rpc' = "none"
            /\ pc' = "entity_detach"
            /\ trace' = [trace EXCEPT ![Global].reattached = @ + 1]
            /\ UNCHANGED panic
    /\ UNCHANGED <<world, entity_map, ran, visited, percent, ticks, stepOps, acc0,
                   passes, inits, pre, dropped, hist>>
    /\ UNCHANGED written

\* lines 178-184: take every ScheduleRunner component, leave a dummy
DetachEntities ==
    /\ pc = "entity_detach"
    /\ entity_map' = [e \in Entities |-> world[e]]
    /\ world' = [e \in Entities |->
                    IF world[e] # Absent THEN get_dummy(world[e]) ELSE Absent]
    /\ pre' = [o \in Owners |-> IF o \in Entities THEN world[o] ELSE pre[o]]
    /\ trace' = [o \in Owners |->
                    IF o \in Entities /\ world[o] # Absent
                    THEN [trace[o] EXCEPT !.detached = @ + 1] ELSE trace[o]]
    /\ pc' = "entity_run"
    /\ rpc' = "none"
    /\ ran' = {}
    /\ UNCHANGED <<resources, schedule, running, visited, panic, percent, ticks,
                   stepOps, acc0, passes, inits, dropped, hist>>
    /\ UNCHANGED written

\* keys the run loop (line 185) has passed, the one just run included
RanNow == IF running \in Entities THEN ran \cup {running} ELSE ran

\* (mutant) the next entity's run starts while the current one is in its loop
RunNextEntity_Overlap(e) ==
    /\ pc = "entity_run"
    /\ rpc \in {"none", "return", "while"}
    /\ entity_map[e] # Absent
    /\ e \notin RanNow
    /\ ran' = RanNow
    /\ running' = e
    /\ rpc' = "initialize"
    /\ acc0' = entity_map[e].acc
    /\ passes' = 0
    /\ inits' = 0
    /\ UNCHANGED <<resources, world, pc, schedule, entity_map, visited, panic,
                   percent, ticks, stepOps, pre, trace, dropped, hist>>
    /\ UNCHANGED written

\* line 185: the next (entity, schedule) of entity_map.iter_mut(), in HashMap order
RunNextEntity(e) ==
    /\ pc = "entity_run"
    /\ rpc \in {"none", "return"}
    /\ entity_map[e] # Absent
    /\ e \notin RanNow
    /\ ran' = RanNow
    /\ running' = e
    /\ rpc' = "initialize"
    /\ acc0' = entity_map[e].acc
    /\ passes' = 0
    /\ inits' = 0
    /\ UNCHANGED <<resources, world, pc, schedule, entity_map, visited, panic,
                   percent, ticks, stepOps, pre, trace, dropped, hist>>
    /\ UNCHANGED written

\* (mutant) the run loop is left before every detached instance has run
EntitiesAllRun_Early ==
    /\ pc = "entity_run"
    /\ rpc \in {"none", "return"}
    /\ ran' = RanNow
    /\ running' = NoOwner
    /\ rpc' = "none"
    /\ pc' = "entity_reattach"
    /\ visited' = {}
    /\ UNCHANGED <<resources, world, schedule, entity_map, panic, percent, ticks,
                   stepOps, acc0, passes, inits, pre, trace, dropped, hist>>
    /\ UNCHANGED written

\* line 187: the run loop is exhausted
EntitiesAllRun ==
    /\ pc = "entity_run"
    /\ rpc \in {"none", "return"}
    /\ \A e \in Entities : entity_map[e] # Absent => e \in RanNow
    /\ ran' = RanNow
    /\ running' = NoOwner
    /\ rpc' = "none"
    /\ pc' = "entity_reattach"
    /\ visited' = {}
    /\ UNCHANGED <<resources, world, schedule, entity_map, panic, percent, ticks,
                   stepOps, acc0, passes, inits, pre, trace, dropped, hist>>
    /\ UNCHANGED written

\* (mutant) an entity without a detached instance is passed over
ReattachEntity_SkipMissing(e) ==
    /\ pc = "entity_reattach"
    /\ e \notin visited
    /\ world[e] # Absent
    /\ IF entity_map[e] = Absent
       THEN /\ visited' = visited \cup {e}
            /\ UNCHANGED <<world, entity_map, trace, panic, pc>>
       ELSE /\ world' = [world EXCEPT ![e] = entity_map[e]]
            /\ entity_map' = [entity_map EXCEPT ![e] = Absent]
            /\ visited' = visited \cup {e}
            /\ trace' = [trace EXCEPT ![e].reattached = @ + 1]
            /\ UNCHANGED <<panic, pc>>
    /\ UNCHANGED <<resources, rpc, schedule, running, ran, percent, ticks, stepOps,
                   acc0, passes, inits, pre, dropped, hist>>
    /\ UNCHANGED written

\* lines 188-190: runner.0 = entity_map.remove(&entity).unwrap()
ReattachEntity(e) ==
    /\ pc = "entity_reattach"
    /\ e \notin visited
    /\ world[e] # Absent
    /\ IF entity_map[e] = Absent
       THEN /\ panic' = "unwrap_entity"
            /\ pc' = "aborted"
            /\ UNCHANGED <<world, entity_map, visited, trace>>
       ELSE /\ world' = [world EXCEPT ![e] = entity_map[e]]
            /\ entity_map' = [entity_map EXCEPT ![e] = Absent]
            /\ visited' = visited \cup {e}
            /\ trace' = [trace EXCEPT ![e].reattached = @ + 1]
            /\ UNCHANGED <<panic, pc>>
    /\ UNCHANGED <<resources, rpc, schedule, running, ran, percent, ticks, stepOps,
                   acc0, passes, inits, pre, dropped, hist>>
    /\ UNCHANGED written

\* line 191: the query is exhausted, the function returns and entity_map is dropped
Return ==
    /\ pc = "entity_reattach"
    /\ \A e \in Entities : world[e] # Absent => e \in visited
    /\ dropped' = {e \in Entities : entity_map[e] # Absent}
    /\ entity_map' = [e \in Entities |-> Absent]
    /\ visited' = {}
    /\ ran' = {}
    /\ pc' = "idle"
    /\ UNCHANGED <<resources, world, rpc, schedule, running, panic, percent, ticks,
                   stepOps, acc0, passes, inits, pre, trace, hist>>
    /\ UNCHANGED written

\* (mutant) the instances share their state: a write goes to every detached one
SetCur_All(v) ==
    /\ schedule' = IF running = Global THEN v ELSE schedule
    /\ entity_map' = IF running \in Entities
                     THEN [e \in Entities |->
                              IF entity_map[e] # Absent THEN v ELSE Absent]
                     ELSE entity_map

\* ------------------------------------------------------- PackedSchedule::run
\* `self` of the run in progress becomes v
SetCur(v) ==
    /\ schedule' = IF running = Global THEN v ELSE schedule
    /\ entity_map' = IF running \in Entities
                     THEN [entity_map EXCEPT ![running] = v] ELSE entity_map

\* (mutant) the accumulator is overwritten by the clock reading
Accumulate_Overwrite(s, time) == [s EXCEPT !.acc = time.delta_seconds_f64]

\* line 50: *accumulator += time.delta_seconds_f64
Accumulate(s, time) == [s EXCEPT !.acc = @ + time.delta_seconds_f64]

\* (mutant) while accumulator > rate
WhileCond_Strict(s) == s.acc > s.rate

\* line 56: while accumulator >= rate
WhileCond(s) == s.acc >= s.rate

\* (mutant) the accumulator is reset after a pass
Drain_Reset(s) == [s EXCEPT !.acc = 0]

\* line 58: *accumulator -= *rate
Drain(s) == [s EXCEPT !.acc = @ - s.rate]

SignAfter(old, t) ==
    IF old = "neg" \/ t < 0 THEN "neg"
    ELSE IF old = "zero" \/ t = 0 THEN "zero"
    ELSE "pos"

\* the history of an owner's instance after a clock reading t was added
HistAfterClock(h, t) ==
    IF SignAfter(h.sign, t) = "neg"
    THEN [sumE |-> 0, passes |-> 0, sign |-> "neg", runs |-> 1]
    ELSE [sumE |-> h.sumE + t, passes |-> h.passes,
          sign |-> SignAfter(h.sign, t), runs |-> 1]

HistAfterPass(h) ==
    IF h.sign = "neg" THEN h ELSE [h EXCEPT !.passes = @ + 1]

\* (mutant) run goes to the match without initializing the executor
RunInitialize_Skip ==
    /\ rpc = "initialize"
    /\ rpc' = "match"
    /\ trace' = [trace EXCEPT ![running].run = @ + 1]
    /\ UNCHANGED <<resources, world, pc, schedule, entity_map, running, ran, visited,
                   panic, percent, ticks, stepOps, acc0, passes, inits, pre, dropped,
                   hist>>
    /\ UNCHANGED written

\* line 40: self.1.initialize(world, resources)
RunInitialize ==
    /\ rpc = "initialize"
    /\ inits' = inits + 1
    /\ rpc' = "match"
    /\ trace' = [trace EXCEPT ![running].run = @ + 1]
    /\ UNCHANGED <<resources, world, pc, schedule, entity_map, running, ran, visited,
                   panic, percent, ticks, stepOps, acc0, passes, pre, dropped, hist>>
    /\ UNCHANGED written

\* (mutant) the Always arm reads the Time resource like the Fixed arm
RunAlways_NeedsTime ==
    /\ rpc = "match"
    /\ Cur.ty = "Always"
    /\ IF resources.time.present
       THEN rpc' = "pass" /\ UNCHANGED <<panic, pc>>
       ELSE panic' = "no_time" /\ pc' = "aborted" /\ UNCHANGED rpc
    /\ UNCHANGED <<resources, world, schedule, entity_map, running, ran, visited,
                   percent, ticks, stepOps, acc0, passes, inits, pre, trace,
                   dropped, hist>>
    /\ UNCHANGED written

\* lines 43-44: ScheduleType::Always => the executor starts its pass
RunAlways ==
    /\ rpc = "match"
    /\ Cur.ty = "Always"
    /\ rpc' = "pass"
    /\ UNCHANGED <<resources, world, pc, schedule, entity_map, running, ran, visited,
                   panic, percent, ticks, stepOps, acc0, passes, inits, pre, trace,
                   dropped, hist>>
    /\ UNCHANGED written

\* (mutant) a missing Time is skipped over instead of panicking
RunAccumulate_SkipMissing ==
    /\ rpc = "match"
    /\ Cur.ty = "Fixed"
    /\ IF resources.time.present
       THEN /\ SetCur(Accumulate(Cur, resources.time))
            /\ hist' = [hist EXCEPT ![running] =
                           HistAfterClock(@, resources.time.delta_seconds_f64)]
       ELSE UNCHANGED <<schedule, entity_map, hist>>
    /\ rpc' = "while"
    /\ UNCHANGED <<resources, world, pc, panic, running, ran, visited, percent,
                   ticks, stepOps, acc0, passes, inits, pre, trace, dropped>>
    /\ UNCHANGED written

\* lines 46-53: ScheduleType::Fixed => accumulate time, or panic without a Time
RunAccumulate ==
    /\ rpc = "match"
    /\ Cur.ty = "Fixed"
    /\ IF resources.time.present
       THEN /\ SetCur(Accumulate(Cur, resources.time))
            /\ rpc' = "while"
            /\ hist' = [hist EXCEPT ![running] =
                           HistAfterClock(@, resources.time.delta_seconds_f64)]
            /\ UNCHANGED <<panic, pc>>
       ELSE /\ panic' = "no_time"
            /\ pc' = "aborted"
            /\ UNCHANGED <<schedule, entity_map, rpc, hist>>
    /\ UNCHANGED <<resources, world, running, ran, visited, percent, ticks, stepOps,
                   acc0, passes, inits, pre, trace, dropped>>
    /\ UNCHANGED written

\* lines 56-57: the loop condition holds, the executor starts a pass
RunWhile ==
    /\ rpc = "while"
    /\ WhileCond(Cur)
    /\ passes < PassCap
    /\ rpc' = "pass"
    /\ UNCHANGED <<resources, world, pc, schedule, entity_map, running, ran, visited,
                   panic, percent, ticks, stepOps, acc0, passes, inits, pre, trace,
                   dropped, hist>>
    /\ UNCHANGED written

\* line 56, 60-62: the loop condition fails, run returns
RunWhileExit ==
    /\ rpc = "while"
    /\ ~WhileCond(Cur)
    /\ rpc' = "return"
    /\ UNCHANGED <<resources, world, pc, schedule, entity_map, running, ran, visited,
                   panic, percent, ticks, stepOps, acc0, passes, inits, pre, trace,
                   dropped, hist>>
    /\ UNCHANGED written

\* lines 44 / 57-58: the executor's pass ends
PassEnd ==
    /\ rpc = "pass"
    /\ passes' = passes + 1
    /\ percent' = NoPercent
    /\ IF Cur.ty = "Always"
       THEN /\ rpc' = "return"
            /\ UNCHANGED <<schedule, entity_map, hist>>
       ELSE /\ SetCur(Drain(Cur))
            /\ rpc' = "while"
            /\ hist' = [hist EXCEPT ![running] = HistAfterPass(@)]
    /\ UNCHANGED <<resources, world, pc, running, ran, visited, panic, ticks, stepOps,
                   acc0, inits, pre, trace, dropped>>
    /\ UNCHANGED written

\* ------------------------------------ systems of the schedule, during a pass
\* A system despawns the entity or removes the component / the resource
StepRemove(o) ==
    /\ rpc = "pass"
    /\ stepOps < MaxStepOps
    /\ Slot(o) # Absent
    /\ stepOps' = stepOps + 1
    /\ resources' = IF o = Global THEN [resources EXCEPT !.runner = Absent]
                    ELSE resources
    /\ world' = IF o \in Entities THEN [world EXCEPT ![o] = Absent] ELSE world
    /\ UNCHANGED <<pc, rpc, schedule, entity_map, running, ran, visited, panic,
                   percent, ticks, acc0, passes, inits, pre, trace, dropped, hist>>
    /\ written' = written \cup {o}

\* A system inserts a ScheduleRunner (spawn, insert component, insert resource),
\* overwriting what the slot holds
StepInsert(o, c) ==
    /\ rpc = "pass"
    /\ stepOps < MaxStepOps
    /\ Slot(o) # c
    /\ stepOps' = stepOps + 1
    /\ resources' = IF o = Global THEN [resources EXCEPT !.runner = c] ELSE resources
    /\ world' = IF o \in Entities THEN [world EXCEPT ![o] = c] ELSE world
    /\ hist' = IF Detached(o) THEN hist ELSE [hist EXCEPT ![o] = NewHist]
    /\ UNCHANGED <<pc, rpc, schedule, entity_map, running, ran, visited, panic,
                   percent, ticks, acc0, passes, inits, pre, trace, dropped>>
    /\ written' = written \cup {o}

\* A system reads runner.frame_percent() through the owner's slot (fixed_sys)
StepObserve(o) ==
    /\ rpc = "pass"
    /\ stepOps < MaxStepOps
    /\ Slot(o) # Absent
    /\ stepOps' = stepOps + 1
    /\ percent' = frame_percent(Slot(o))
    /\ UNCHANGED <<resources, world, pc, rpc, schedule, entity_map, running, ran,
                   visited, panic, ticks, acc0, passes, inits, pre, trace,
                   dropped, hist>>
    /\ UNCHANGED written

\* ------------------------------------------------------------------- Next
Next ==
    \/ \E t \in ProtocolReadings : ticks < ProtocolTicks /\ Tick(t)
    \/ RunInitialize
    \/ RunAlways
    \/ RunAccumulate
    \/ RunWhile
    \/ RunWhileExit
    \/ PassEnd
    \/ ReattachGlobal
    \/ DetachEntities
    \/ \E e \in Entities : RunNextEntity(e)
    \/ EntitiesAllRun
    \/ \E e \in Entities : ReattachEntity(e)
    \/ Return
    \/ \E o \in Owners : StepRemove(o)
    \/ \E o \in Owners, c \in ProtocolConstructed : StepInsert(o, c)
    \/ \E o \in Owners : StepObserve(o)

Spec == Init /\ [][Next]_vars

\* An application whose only runner is the resource
NextTiming ==
    \/ \E t \in TimeReadings : ticks < MaxTicks /\ Tick(t)
    \/ RunInitialize
    \/ RunAlways
    \/ RunAccumulate
    \/ RunWhile
    \/ RunWhileExit
    \/ PassEnd
    \/ ReattachGlobal
    \/ DetachEntities
    \/ EntitiesAllRun
    \/ Return
    \/ StepObserve(Global)

SpecTiming == InitTiming /\ [][NextTiming]_vars

\* ---------------------------------------------------------------- claims
Delta == resources.time.delta_seconds_f64

\* a run of a Fixed instance with rate > 0 has returned
FixedReturned ==
    /\ rpc = "return"
    /\ Cur.ty = "Fixed"
    /\ Cur.rate > 0

\* C1: a run of Fixed(rate, acc), rate > 0, 0 <= acc < rate, with a clock
\* reading e >= 0 executes floor((acc + e) / rate) passes and leaves
\* accumulator = (acc + e) - passes * rate
FixedRunPasses ==
    (FixedReturned /\ 0 <= acc0 /\ acc0 < Cur.rate /\ Delta >= 0)
        => /\ passes = (acc0 + Delta) \div Cur.rate
           /\ Cur.acc = (acc0 + Delta) - passes * Cur.rate

\* Fixed(1.0, 0.0) with e = 3.5 (quantum 0.5): 3 passes, accumulator 0.5, progress 0.5
FixedRunPassesWitness ==
    /\ FixedReturned
    /\ Cur.rate = 2
    /\ acc0 = 0
    /\ Delta = 7
    /\ passes = 3
    /\ Cur.acc = 1
    /\ frame_percent(Cur)[1] * 2 = frame_percent(Cur)[2]

\* C2: starting at accumulator 0, over ticks whose readings are all >= 0 and
\* sum to T, the passes executed total floor(T / rate), however T is split
TotalPassesIndependentOfSplit ==
    (FixedReturned /\ hist[running].sign # "neg")
        => /\ hist[running].passes = hist[running].sumE \div Cur.rate
           /\ Cur.acc = hist[running].sumE % Cur.rate

\* Fixed(2.0, 0.0) after four ticks summing to 2.0: the first pass, in the fourth tick
TotalPassesWitness ==
    /\ FixedReturned
    /\ Cur.rate = 4
    /\ ticks = 4
    /\ Delta = 1
    /\ hist[running].sumE = 4
    /\ hist[running].passes = 1
    /\ passes = 1
    /\ Cur.acc = 0

\* C3: created with accumulator 0 and ticked only with readings > 0, a Fixed
\* instance with rate > 0 has 0 <= accumulator < rate whenever its run returns
AccumulatorBelowRate ==
    (FixedReturned /\ hist[running].sign = "pos")
        => (0 <= Cur.acc /\ Cur.acc < Cur.rate)

AccumulatorBelowRateWitness ==
    /\ FixedReturned
    /\ hist[running].sign = "pos"
    /\ ticks >= 2
    /\ passes >= 2
    /\ Cur.acc > 0

\* C4: a run of a Fixed instance (rate > 0, 0 <= accumulator < rate) with a
\* zero or negative clock reading executes no pass and leaves the accumulator
\* unchanged and >= 0
NonPositiveClockLeavesAccumulator ==
    (FixedReturned /\ 0 <= acc0 /\ acc0 < Cur.rate /\ Delta <= 0)
        => (passes = 0 /\ Cur.acc = acc0 /\ Cur.acc >= 0)

\* C5: an Always instance executes exactly one pass on every run, for every
\* clock reading and without any; its run never panics and leaves it Always
AlwaysRunsOnePass ==
    (running # NoOwner /\ Cur.ty = "Always")
        => /\ panic # "no_time"
           /\ passes <= 1
           /\ rpc = "return" => (passes = 1 /\ Cur = pre[running])

AlwaysRunsOnePassWitness ==
    /\ running # NoOwner
    /\ Cur.ty = "Always"
    /\ rpc = "return"
    /\ ~resources.time.present
    /\ passes = 1
    /\ panic = "none"

\* the accumulator a run leaves in p when the clock reads t
AccAfterRun(p, t) ==
    IF p.ty = "Fixed" /\ p.rate > 0 /\ p.acc + t >= p.rate
    THEN (p.acc + t) % p.rate
    ELSE IF p.ty = "Fixed" THEN p.acc + t
    ELSE p.acc

\* o's slot holds what was detached from it, with the accumulator its run computed
RoundTripOf(o) ==
    Slot(o) = [pre[o] EXCEPT !.acc = AccAfterRun(pre[o], Delta)]

\* C6: once reattached, an owner's slot holds the instance detached from it:
\* same variant, rate, stages and systems, accumulator as computed by the run.
\* (The resource is looked at when it is reattached, line 173: systems of the
\* entity passes that follow may replace it.)
RoundTrip ==
    /\ (pc = "entity_detach" /\ trace[Global].reattached = 1) => RoundTripOf(Global)
    /\ \A e \in Entities :
           (pc \in {"entity_reattach", "idle"} /\ trace[e].reattached = 1)
               => RoundTripOf(e)

RoundTripWitness ==
    /\ pc = "idle"
    /\ trace[Global].reattached = 1
    /\ \E e \in Entities :
           /\ trace[e].reattached = 1
           /\ pre[e].ty = "Fixed"
           /\ world[e].acc # pre[e].acc
           /\ world[e].stages = 7
           /\ hist[e].passes >= 1

\* C7: in every tick each detached instance is detached once, run once and
\* reattached once; when the tick returns no slot holds a dummy and no
\* detached instance is left in entity_map
EachInstanceOncePerTick ==
    (pc = "idle" /\ ticks > 0)
        => /\ \A o \in Owners :
                 pre[o] # Absent
                     => trace[o] = [detached |-> 1, run |-> 1, reattached |-> 1]
           /\ \A o \in Owners : Slot(o) # Absent => Slot(o).stages # 0
           /\ dropped = {}

\* C8: a tick in which the slot of a detached instance can no longer be found
\* ends in a panic: a tick that returns has dropped no detached instance
MissingOwnerIsFatal ==
    pc = "idle" => dropped = {}

\* C9: running a Fixed instance without a Time panics, before any pass of it
\* and before its accumulator changes; nothing runs after the panic
MissingClockIsFatal ==
    [][/\ panic = "none"
       /\ (rpc = "match" /\ Cur.ty = "Fixed" /\ ~resources.time.present)
              => /\ panic' = "no_time"
                 /\ pc' = "aborted"
                 /\ passes' = 0
                 /\ Cur' = Cur
                 /\ Cur'.acc = acc0]_vars

MissingClockIsFatalWitness ==
    /\ panic = "no_time"
    /\ pc = "aborted"
    /\ Cur.ty = "Fixed"
    /\ passes = 0
    /\ ticks >= 2

\* every PackedSchedule there is: in the slots and in the runner's locals
AllSchedules ==
    ({Slot(o) : o \in Owners} \cup {schedule} \cup {entity_map[e] : e \in Entities})
        \ {Absent}

InUnitInterval(p) == p[2] > 0 /\ 0 <= p[1] /\ p[1] <= p[2]

\* p is accumulator / rate clamped to [0, 1], for rate > 0
IsClamped(p, accumulator, rate) ==
    IF accumulator < 0 THEN p[1] = 0
    ELSE IF accumulator > rate THEN p[1] = p[2]
    ELSE p[1] * rate = accumulator * p[2]

\* C10: frame_percent() is in [0, 1]: 1 for Always, accumulator / rate clamped
\* to [0, 1] for Fixed; reading it changes no PackedSchedule
ProgressInUnitInterval ==
    /\ [](\A s \in AllSchedules :
             /\ InUnitInterval(frame_percent(s))
             /\ s.ty = "Always" => frame_percent(s)[1] = frame_percent(s)[2]
             /\ (s.ty = "Fixed" /\ s.rate > 0)
                    => IsClamped(frame_percent(s), s.acc, s.rate))
    /\ [](percent # NoPercent => InUnitInterval(percent))
    /\ [][percent' \notin {percent, NoPercent}
             => UNCHANGED <<resources, world, schedule, entity_map>>]_vars

\* a system read 0 from a slot whose accumulator is negative
ProgressWitness ==
    /\ rpc = "pass"
    /\ percent = <<0, 1>>
    /\ Slot(Global).ty = "Fixed"
    /\ Slot(Global).rate > 0
    /\ Slot(Global).acc < 0

\* p <= q and p < q for fractions with positive denominators
FracLeq(p, q) == p[1] * q[2] <= q[1] * p[2]
FracLess(p, q) == p[1] * q[2] < q[1] * p[2]

\* C11: for a Fixed instance with rate > 0 ticked with readings >= 0, the
\* progress after a tick without a pass is not below the progress after the
\* tick before, and after a tick with a pass it is in [0, 1)
ProgressBetweenPasses ==
    (/\ pc = "entity_detach"
     /\ trace[Global].reattached = 1
     /\ Slot(Global).ty = "Fixed"
     /\ Slot(Global).rate > 0
     /\ hist[Global].sign # "neg")
        => /\ passes = 0
                => FracLeq(frame_percent(pre[Global]), frame_percent(Slot(Global)))
           /\ passes >= 1
                => /\ FracLeq(<<0, 1>>, frame_percent(Slot(Global)))
                   /\ FracLess(frame_percent(Slot(Global)), <<1, 1>>)

\* progress grew over a tick without a pass, after a tick that left progress > 0
ProgressBetweenPassesWitness ==
    /\ pc = "entity_detach"
    /\ trace[Global].reattached = 1
    /\ Slot(Global).ty = "Fixed"
    /\ Slot(Global).rate > 0
    /\ hist[Global].sign # "neg"
    /\ ticks >= 3
    /\ hist[Global].passes >= 1
    /\ passes = 0
    /\ FracLess(<<0, 1>>, frame_percent(pre[Global]))
    /\ FracLess(frame_percent(pre[Global]), frame_percent(Slot(Global)))

\* passes of one run of p alone, on a clock reading t
PassesAlone(p, t) ==
    IF p.ty = "Always" THEN 1
    ELSE IF p.rate > 0 /\ p.acc + t >= p.rate THEN (p.acc + t) \div p.rate
    ELSE 0

\* C12: instances ticked together on one clock reading: the pass count and the
\* resulting accumulator of each are those of the instance run alone, a
\* function of its own rate, its own accumulator and the reading
InstancesIndependent ==
    (pc = "entity_run" /\ rpc = "return" /\ running \in Entities)
        => /\ passes = PassesAlone(pre[running], Delta)
           /\ \A e \in RanNow :
                  /\ entity_map[e].ty = pre[e].ty
                  /\ entity_map[e].rate = pre[e].rate
                  /\ entity_map[e].acc = AccAfterRun(pre[e], Delta)

\* two Fixed entities of different rates ran on one reading, with different
\* pass counts and different accumulators
InstancesIndependentWitness ==
    /\ pc = "entity_run"
    /\ rpc = "return"
    /\ running \in Entities
    /\ \E e \in ran :
           /\ pre[e].ty = "Fixed"
           /\ pre[running].ty = "Fixed"
           /\ pre[e].rate # pre[running].rate
           /\ PassesAlone(pre[e], Delta) >= 1
           /\ passes >= 1
           /\ PassesAlone(pre[e], Delta) # passes
           /\ entity_map[e].acc # entity_map[running].acc

\* C13: every run completes. The catch-up loop of lines 56-59 ends when each
\* pass that leaves the loop condition true has brought the accumulator down:
\* a pass after which the loop goes on with an accumulator that did not
\* decrease is repeated forever
CatchUpLoopEnds ==
    [][(rpc = "pass" /\ rpc' = "while" /\ Cur.ty = "Fixed")
          => ~(WhileCond(Cur') /\ Cur'.acc >= Cur.acc)]_vars

\* C14 as stated: a run that executed N passes performed N initializations
InitializedBeforeEachPass ==
    rpc = "return" => inits = passes

\* C14: a run initializes its executor exactly once, before the match on the
\* timing policy and so before its first pass; the passes that follow, catch-up
\* passes included, add no initialization, and a run without a pass has
\* initialized all the same
InitializedOncePerRun ==
    /\ rpc = "initialize" => (inits = 0 /\ passes = 0)
    /\ rpc \in {"match", "while", "pass", "return"} => inits = 1

\* a run returned after two or more catch-up passes and one initialization
InitializedOncePerRunWitness ==
    /\ rpc = "return"
    /\ Cur.ty = "Fixed"
    /\ passes >= 2
    /\ inits = 1

\* the owners whose instance was detached by the step just taken
JustDetached ==
    IF pc = "global_run" /\ rpc = "initialize" THEN {Global}
    ELSE IF pc = "entity_run" /\ rpc = "none"
         THEN {e \in Entities : entity_map[e] # Absent}
    ELSE {}

\* o's slot holds a dummy of the instance detached from it: same variant, same
\* rate, an executor without stages and systems
DummyShape(o) ==
    /\ Slot(o).ty = pre[o].ty
    /\ Slot(o).rate = pre[o].rate
    /\ Slot(o).stages = 0
    /\ Slot(o).systems = 0

\* C15 as stated: the dummy left at detach has the live instance's variant and
\* rate, an empty executor, and for Fixed not the live instance's accumulator
DummyDropsAccumulator ==
    \A o \in JustDetached :
        /\ DummyShape(o)
        /\ (pre[o].ty = "Fixed" /\ pre[o].acc # 0) => Slot(o).acc # pre[o].acc

\* C15: the dummy left at detach has the live instance's variant and rate, an
\* empty executor, and for Fixed the live instance's accumulator as of detach
DummyCarriesAccumulator ==
    \A o \in JustDetached :
        /\ DummyShape(o)
        /\ Slot(o).acc = pre[o].acc

\* a Fixed instance with stages and a non-zero accumulator was just detached
DummyCarriesAccumulatorWitness ==
    \E o \in JustDetached :
        /\ pre[o].ty = "Fixed"
        /\ pre[o].acc # 0
        /\ pre[o].stages > 0
        /\ Slot(o).acc = pre[o].acc
        /\ Slot(o).stages = 0

\* C16: the passes of different instances do not interleave: the runner moves
\* from the running instance to another one, or on to its next phase, only
\* when that instance's run has returned (or a panic ends the tick), and while
\* an instance is in its passes no other instance has a run under way
RunsDoNotInterleave ==
    [][/\ (running # NoOwner /\ (running' # running \/ pc' # pc))
            => (rpc = "return" \/ pc' = "aborted")
       /\ (rpc = "pass" /\ rpc' = "pass")
            => (running' = running /\ passes' = passes)
       /\ (rpc = "pass" /\ rpc' # "pass")
            => (running' = running /\ passes' = passes + 1)]_vars

\* an entity is in a pass after another entity's run of two catch-up passes
RunsDoNotInterleaveWitness ==
    /\ pc = "entity_run"
    /\ rpc = "pass"
    /\ \E e \in ran :
           /\ e # running
           /\ pre[e].ty = "Fixed"
           /\ PassesAlone(pre[e], Delta) >= 2
           /\ ~WhileCond(entity_map[e])

\* C17: during the passes of the resource's instance a system reading the slot
\* finds the dummy: variant, rate and accumulator are those the slot held when
\* the tick began, in every pass of the tick, and the progress a system reads
\* is computed from them, not from the accumulator the run is working on
PassSeesDummy ==
    (pc = "global_run" /\ rpc = "pass")
        => /\ Slot(Global).ty = pre[Global].ty
           /\ Slot(Global).rate = pre[Global].rate
           /\ Slot(Global).acc = pre[Global].acc
           /\ Slot(Global).acc = acc0
           /\ Slot(Global).stages = 0
           /\ percent # NoPercent => percent = frame_percent(pre[Global])

\* in the second or a later catch-up pass a system read the progress of a slot
\* whose accumulator differs from the live one
PassSeesDummyWitness ==
    /\ pc = "global_run"
    /\ rpc = "pass"
    /\ Cur.ty = "Fixed"
    /\ Cur.rate > 0
    /\ passes >= 1
    /\ Delta > 0
    /\ acc0 > 0
    /\ percent # NoPercent
    /\ Cur.acc # Slot(Global).acc
    /\ frame_percent(Cur) # percent

\* C18: what a system wrote into the slot of a detached instance is discarded
\* at reattach: the step that reattaches an owner leaves in its slot the
\* detached instance as its run left it, whatever the slot held before
SlotWritesDiscarded ==
    [][/\ (pc = "global_run" /\ pc' = "entity_detach")
            => (resources'.runner = schedule /\ RoundTripOf(Global)')
       /\ \A e \in Entities :
              (pc = "entity_reattach" /\ e \in visited' \ visited)
                  => (world'[e] = entity_map[e] /\ RoundTripOf(e)')]_vars

\* the resource's instance is back in a slot that a system had overwritten,
\* during the run, with a different instance
SlotWritesDiscardedWitness ==
    /\ pc = "entity_detach"
    /\ trace[Global].reattached = 1
    /\ Global \in written
    /\ stepOps >= 1
    /\ pre[Global].ty = "Fixed"
    /\ Slot(Global).acc # 0
    /\ RoundTripOf(Global)

\* the entities carrying a ScheduleRunner now, and those that carried one when
\* the entity instances were detached
CarryingNow == {e \in Entities : world[e] # Absent}
CarryingAtDetach == {e \in Entities : pre[e] # Absent}

\* C19: an entity that carries an instance at reattach and carried none at
\* detach makes the reattach loop panic when it comes to it: the loop gets past
\* no such entity and a tick that returns has none; and the reattach loop
\* panics only in a tick whose carrying entities differ between detach and
\* reattach
LateInstanceIsFatal ==
    /\ pc = "entity_reattach" => visited \subseteq CarryingAtDetach
    /\ (pc = "idle" /\ ticks > 0) => CarryingNow \subseteq CarryingAtDetach
    /\ panic = "unwrap_entity"
           => /\ pc = "aborted"
              /\ CarryingNow # CarryingAtDetach
              /\ \E e \in CarryingNow \ visited : e \notin CarryingAtDetach

\* the reattach loop panicked on an entity that a system gave an instance
\* during a pass
LateInstanceIsFatalWitness ==
    /\ panic = "unwrap_entity"
    /\ \E e \in written : e \in CarryingNow \ CarryingAtDetach

\* the resource's instance, if the tick detached it, has run and is back
GlobalDone ==
    trace[Global] \in {NoTrace, [detached |-> 1, run |-> 1, reattached |-> 1]}

\* C20: the phases of a tick follow one another. While the resource's instance
\* is out, no entity instance is detached and the entity slots hold live
\* instances; while the entity instances run, the resource's instance is back
\* in its slot, every detached entity instance is out of its slot, none is
\* reattached yet, and the entity slots hold dummies; the reattach loop starts
\* when every detached entity instance has run. (Slots a system wrote during
\* the tick hold what was written and are left out.)
PhasesInOrder ==
    /\ pc = "global_run"
           => /\ \A e \in Entities :
                     /\ entity_map[e] = Absent
                     /\ trace[e] = NoTrace
                     /\ (rpc = "pass" /\ e \notin written /\ world[e] # Absent)
                            => world[e].stages # 0
              /\ schedule # Absent
    /\ pc \in {"entity_detach", "entity_run", "entity_reattach"}
           => (schedule = Absent /\ GlobalDone)
    /\ pc = "entity_detach" => \A e \in Entities : trace[e] = NoTrace
    /\ pc = "entity_run"
           => /\ \A e \in Entities :
                     /\ trace[e].reattached = 0
                     /\ trace[e].detached = (IF pre[e] # Absent THEN 1 ELSE 0)
                     /\ pre[e] # Absent => entity_map[e] # Absent
                     /\ (rpc = "pass" /\ e \notin written /\ world[e] # Absent)
                            => (world[e].stages = 0 /\ entity_map[e] # Absent)
              /\ (rpc = "pass" /\ Global \notin written /\ Slot(Global) # Absent)
                     => Slot(Global).stages # 0
    /\ pc = "entity_reattach"
           => \A e \in Entities :
                  pre[e] # Absent => (trace[e].detached = 1 /\ trace[e].run = 1)

\* an entity instance is in a pass: both entity slots hold dummies of detached
\* instances, the resource's instance has run and is back in its slot
PhasesInOrderWitness ==
    /\ pc = "entity_run"
    /\ rpc = "pass"
    /\ written = {}
    /\ trace[Global] = [detached |-> 1, run |-> 1, reattached |-> 1]
    /\ Slot(Global).stages # 0
    /\ \A e \in Entities :
           /\ entity_map[e] # Absent
           /\ world[e] = get_dummy(pre[e])
           /\ pre[e].stages # 0

=============================================================================
